---- MODULE Spec2Model ----
\* Model of the browser session manager (core/browser_handler.py), the pytest
\* browser fixture (conftest.py) and the non-throwing state queries of the page
\* interaction layer (core/base_page.py).
EXTENDS Naturals, FiniteSets, Sequences, TLC

\* ---------------------------------------------------------------- bounds
\* Number of start_browser() calls that may begin acquiring resources.
MaxStarts == 2

\* ---------------------------------------------------------------- handles
\* A handle field holds None (0) or the generation (1..MaxStarts) of the
\* start_browser() call that acquired the resource it refers to.
None == 0

Kinds == {"page", "context", "browser", "playwright"}

\* Variant of CleanupOrder: the automation host is stopped first.
CleanupOrderReversed == <<"playwright", "browser", "context", "page">>

\* cleanup() releases in this order: page, context, engine, automation host.
CleanupOrder == <<"page", "context", "browser", "playwright">>

\* start_browser() acquires in this order, then sets the default timeout.
StartOrder == <<"playwright", "browser", "context", "page", "timeout">>

StartSteps == {StartOrder[i] : i \in 1..Len(StartOrder)}

\* Position of a kind in CleanupOrder and of a step in StartOrder.
Rank(k) == [page |-> 1, context |-> 2, browser |-> 3, playwright |-> 4][k]

StartIndex(s) ==
    [playwright |-> 1, browser |-> 2, context |-> 3, page |-> 4, timeout |-> 5][s]

VARIABLES
    playwright,      \* BrowserHandler._playwright
    browser,         \* BrowserHandler._browser
    context,         \* BrowserHandler._context
    page,            \* BrowserHandler._page
    is_initialized,  \* BrowserHandler._is_initialized
    gen,             \* number of start_browser() calls that began acquiring
    live,            \* resources <<kind, generation>> acquired and not released
    lastOp,          \* what the last call on the handler did
    lastCleanup,     \* what the cleanup() run by the last call did
    everClosed,      \* a cleanup() has completed on this handler instance
    fixturePc,       \* position of the fixtures: idle, body, ran, shot, finished
    testOutcome,     \* outcome of the test the fixture serves
    fixtureCleanups, \* cleanup() calls the fixture itself made for this test
    testGen,         \* generation of the resources acquired for this test
    dom,             \* the elements of the page, by selector
    pageResult,      \* what the last page-object primitive did
    primResult,      \* what the last fail-fast primitive or assertion did
    shotResult,      \* what the screenshot_on_failure teardown of this test did
    text_content,    \* the text content of the element at "#first"
    textResult,      \* what the last get_text() returned
    url,             \* page.url, the URL the page shows
    urlResult,       \* what the last assert_url_contains() did
    cart,            \* the products of the cart list, in document order
    inventory,       \* the products of the inventory list, in document order
    listResult,      \* what the last by-name lookup did
    cliResult,       \* what the last run of main() did
    users,           \* ConfigLoader._config["users"], the loaded snapshot
    userResult,      \* what the last accessor call on the loader did
    settings,        \* the other sections of the loaded snapshot
    fileReads,       \* times the loader has opened its configuration file
    pageObject,      \* a page object: the page it holds, and its last query
    input_value,     \* the value of the input field at "#first"
    fillResult       \* what the last fill_input() on that field did

handlerVars == <<playwright, browser, context, page, is_initialized, gen, live,
                 lastOp, lastCleanup, everClosed>>

fixtureVars == <<fixturePc, testOutcome, fixtureCleanups, testGen, shotResult>>

pageVars == <<dom, pageResult>>

primVars == <<primResult>>

\* The variables of the loader's other sections, of a page object's own
\* fields and of an input field.
lateVars == <<settings, fileReads, pageObject, input_value, fillResult>>

\* The variables of the page objects, the runner and the configuration,
\* which the primitives leave alone.
upperVars == <<text_content, textResult, url, urlResult, cart, inventory,
               listResult, cliResult, users, userResult, lateVars>>

\* The variables of the handler, the fixture and the primitives, which the
\* page objects, the runner and the configuration leave alone.
lowerVars == <<handlerVars, fixtureVars, pageVars, primVars>>

\* The variables of the layers above the handler, the fixture and the state
\* queries.
extVars == <<primVars, upperVars>>

vars == <<handlerVars, fixtureVars, pageVars, extVars>>

Handles == [page |-> page, context |-> context, browser |-> browser,
            playwright |-> playwright]

NoCleanup == [ran |-> FALSE, present |-> {}, attempted |-> {}, failed |-> {},
              raised |-> FALSE]

OpRecord(op, wasInit, raised, issued, failStep, acquired) ==
    [op |-> op, wasInit |-> wasInit, raised |-> raised, issued |-> issued,
     failStep |-> failStep, acquired |-> acquired]

\* ---------------------------------------------------------------- cleanup
\* The handle fields that are truthy: the `if self._x:` tests of cleanup().
Present(h) == {k \in Kinds : h[k] # None}

\* Position in CleanupOrder of the first present step that raises (0: none).
\* One try block encloses all four steps, so the first raise ends the body.
FirstFail(h, failing) ==
    LET bad == {i \in 1..Len(CleanupOrder) :
                    CleanupOrder[i] \in Present(h) /\ CleanupOrder[i] \in failing}
    IN  IF bad = {} THEN 0 ELSE CHOOSE i \in bad : \A j \in bad : i <= j

\* The sets of release steps that raise when called, as the actions draw
\* them. The body of cleanup() ends at the first raise, so what a call does
\* is decided by the first present step that raises alone: the sets of one
\* step, and the empty set, give every outcome a larger set gives.
FailSets == {{}} \cup {{k} : k \in Kinds}

\* The release steps cleanup() calls (close/stop issued), failing one included.
Attempted(h, failing) ==
    LET ff == FirstFail(h, failing)
    IN  {CleanupOrder[i] : i \in {j \in 1..Len(CleanupOrder) :
                                    /\ CleanupOrder[j] \in Present(h)
                                    /\ (ff = 0 \/ j <= ff)}}

\* The release steps that returned normally.
Released(h, failing) ==
    LET ff == FirstFail(h, failing)
    IN  IF ff = 0 THEN Attempted(h, failing)
        ELSE Attempted(h, failing) \ {CleanupOrder[ff]}

\* Closing a context closes its pages, closing the engine closes its contexts,
\* stopping the host ends its engines: a release of <<k, g>> ends every
\* resource of generation g at or below k.
LiveAfterCleanup(h, lv, failing) ==
    {r \in lv : ~ \E k \in Released(h, failing) :
                    h[k] = r[2] /\ Rank(r[1]) <= Rank(k)}

\* `self._is_initialized = False` is the last statement of the try body.
InitAfterCleanup(init, h, failing) ==
    IF FirstFail(h, failing) = 0 THEN FALSE ELSE init

\* `except Exception as e: logger.error(...)`: cleanup() never re-raises.
CleanupRaises(h, failing) == FALSE

CleanupRecord(h, failing) ==
    [ran |-> TRUE, present |-> Present(h), attempted |-> Attempted(h, failing),
     failed |-> Attempted(h, failing) \ Released(h, failing),
     raised |-> CleanupRaises(h, failing)]

\* ---------------------------------------------------------------- start_browser
\* Variant of StartSkips: the already-initialized test is missing.
StartSkipsNever(init) == FALSE

\* `if self._is_initialized: ... return`
StartSkips(init) == init

\* The handle fields after a start_browser() of generation g whose step
\* failStep raised ("none": no step raised); fields of steps not reached keep
\* their previous value.
Assigned(failStep) ==
    IF failStep = "none" THEN Kinds
    ELSE {k \in Kinds : StartIndex(k) < StartIndex(failStep)}

HandlesAfterStart(h, g, failStep) ==
    [k \in Kinds |-> IF k \in Assigned(failStep) THEN g ELSE h[k]]

\* Variant of InitAfterStart: the flag is never set.
InitAfterStartNever(failStep) == FALSE

\* `self._is_initialized = True` is reached only when no step raised.
InitAfterStart(failStep) == failStep = "none"

\* The resources a start_browser() of generation g acquired before failStep.
AcquiredBy(g, failStep) == {<<k, g>> : k \in Assigned(failStep)}

\* The handler as one value: its handle fields, its flag, and the bookkeeping
\* of the model (generations used, live resources, closed once).
HS == [h |-> Handles, init |-> is_initialized, gen |-> gen, live |-> live,
       closed |-> everClosed]

\* cleanup() on handler hs; failing is the set of release steps that raise
\* when called. The handle fields are left as they are.
AfterCleanup(hs, failing) ==
    [hs EXCEPT !.init = InitAfterCleanup(hs.init, hs.h, failing),
               !.live = LiveAfterCleanup(hs.h, hs.live, failing),
               !.closed = (hs.closed \/ FirstFail(hs.h, failing) = 0)]

\* The handler when the step failStep of start_browser() has raised (or, for
\* "none", when the try body has ended), before any except clause runs.
Launched(hs, failStep) ==
    [hs EXCEPT !.h = HandlesAfterStart(hs.h, hs.gen + 1, failStep),
               !.gen = hs.gen + 1,
               !.live = hs.live \cup AcquiredBy(hs.gen + 1, failStep),
               !.init = hs.init \/ InitAfterStart(failStep)]

\* start_browser() on handler hs: failStep is the launch step that raises
\* ("none": none does); on a raise, `except: self.cleanup(); raise`.
AfterStart(hs, failStep, failing) ==
    IF StartSkips(hs.init) THEN hs
    ELSE IF InitAfterStart(failStep) THEN Launched(hs, failStep)
    ELSE AfterCleanup(Launched(hs, failStep), failing)

StartRecord(hs, failStep) ==
    IF StartSkips(hs.init)
    THEN OpRecord("start_browser", hs.init, "none", FALSE, "none", {})
    ELSE IF InitAfterStart(failStep)
    THEN OpRecord("start_browser", hs.init, "none", FALSE, "none", Kinds)
    ELSE OpRecord("start_browser", hs.init, "launch", FALSE, failStep,
                  Assigned(failStep))

StartCleanupRecord(hs, failStep, failing) ==
    IF StartSkips(hs.init) \/ InitAfterStart(failStep) THEN NoCleanup
    ELSE CleanupRecord(Launched(hs, failStep).h, failing)

\* Whether start_browser() begins acquiring within the bound of the model.
WithinBound(hs) == StartSkips(hs.init) \/ hs.gen < MaxStarts

SetHandler(hs) ==
    /\ playwright' = hs.h["playwright"]
    /\ browser' = hs.h["browser"]
    /\ context' = hs.h["context"]
    /\ page' = hs.h["page"]
    /\ is_initialized' = hs.init
    /\ gen' = hs.gen
    /\ live' = hs.live
    /\ everClosed' = hs.closed

DoStart(failStep, failing) ==
    /\ WithinBound(HS)
    /\ SetHandler(AfterStart(HS, failStep, failing))
    /\ lastOp' = StartRecord(HS, failStep)
    /\ lastCleanup' = StartCleanupRecord(HS, failStep, failing)

DoCleanup(failing) ==
    /\ SetHandler(AfterCleanup(HS, failing))
    /\ lastOp' = OpRecord("cleanup", is_initialized,
                          IF CleanupRaises(Handles, failing) THEN "engine" ELSE "none",
                          FALSE, "none", {})
    /\ lastCleanup' = CleanupRecord(Handles, failing)

\* ---------------------------------------------------------------- Ready-only operations
\* Variant of NotReady: only the handle field is tested.
NotReadyHandleOnly(init, handle) == handle = None

\* `if not self._is_initialized or not self._page: raise RuntimeError(...)`
\* (the context accessor tests self._context instead of self._page).
NotReady(init, handle) == ~init \/ handle = None

\* A call on the page of the handler: it raises when the page is no longer
\* open, and otherwise as the engine decides (fails).
EngineRaises(fails) == fails \/ <<"page", page>> \notin live

\* An operation that guards, then issues one call on self._page; canRaise is
\* FALSE for the plain attribute read of get_current_url.
PageOp(op, canRaise, fails) ==
    /\ lastOp' = IF NotReady(is_initialized, page)
                 THEN OpRecord(op, is_initialized, "not_ready", FALSE, "none", {})
                 ELSE IF canRaise /\ EngineRaises(fails)
                 THEN OpRecord(op, is_initialized, "engine", TRUE, "none", {})
                 ELSE OpRecord(op, is_initialized, "none", TRUE, "none", {})
    /\ lastCleanup' = NoCleanup
    /\ UNCHANGED <<playwright, browser, context, page, is_initialized, gen,
                   live, everClosed>>

\* The page and context properties: guard, then return the handle field.
Accessor(op, handle) ==
    /\ lastOp' = IF NotReady(is_initialized, handle)
                 THEN OpRecord(op, is_initialized, "not_ready", FALSE, "none", {})
                 ELSE OpRecord(op, is_initialized, "none", FALSE, "none", {})
    /\ lastCleanup' = NoCleanup
    /\ UNCHANGED <<playwright, browser, context, page, is_initialized, gen,
                   live, everClosed>>

ReadyOps == {"navigate_to", "take_screenshot", "wait_for_load_state",
             "execute_javascript", "get_current_url", "get_page_title",
             "refresh_page", "page", "context"}

\* ---------------------------------------------------------------- page interaction layer
\* Selectors of the model: two that are well formed and one that is not.
ValidSelectors == {"#first", "#second"}

Selectors == ValidSelectors \cup {"!!bad"}

\* An element is absent (no match), hidden or visible, and enabled or not.
Elements ==
    {[state |-> "absent", enabled |-> FALSE]} \cup
    [state : {"hidden", "visible"}, enabled : BOOLEAN]

\* Where the engine may fail for a reason of its own (closed page, lost
\* connection): in the lookup, in the wait or in the state query.
Faults == {"none", "lookup", "wait", "query"}

Raise == [raised |-> TRUE, value |-> FALSE]

Return(v) == [raised |-> FALSE, value |-> v]

\* The element a selector matches; a malformed selector matches nothing.
Match(d, sel) ==
    IF sel \in ValidSelectors THEN d[sel] ELSE [state |-> "absent", enabled |-> FALSE]

\* find_element(): self.page.locator(selector); resolution is deferred.
FindRaises(fault) == fault = "lookup"

\* element.wait_for(state="visible"): raises for a malformed selector and
\* when the element is not visible by the end of the timeout.
WaitVisibleRaises(d, sel, fault) ==
    \/ fault = "wait"
    \/ sel \notin ValidSelectors
    \/ Match(d, sel).state # "visible"

\* element.is_visible(): immediate, FALSE for no match.
IsVisibleQuery(d, sel, fault) ==
    IF fault = "query" \/ sel \notin ValidSelectors THEN Raise
    ELSE Return(Match(d, sel).state = "visible")

\* element.is_enabled(): waits for the element to attach, raises when none does.
IsEnabledQuery(d, sel, fault) ==
    IF fault \in {"wait", "query"} \/ sel \notin ValidSelectors THEN Raise
    ELSE IF Match(d, sel).state = "absent" THEN Raise
    ELSE Return(Match(d, sel).enabled)

\* Variant of SwallowToFalse: the except clause re-raises, as the other
\* primitives do.
SwallowReraises(r) == r

\* `except Exception: return False`
SwallowToFalse(r) == IF r.raised THEN Return(FALSE) ELSE r

\* The try body of is_element_visible().
IsVisibleTry(d, sel, fault) ==
    IF FindRaises(fault) THEN Raise
    ELSE IF WaitVisibleRaises(d, sel, fault) THEN Raise
    ELSE IsVisibleQuery(d, sel, fault)

\* Variant of is_element_visible: the answer is always yes.
is_element_visible_always(d, sel, fault) == Return(TRUE)

is_element_visible(d, sel, fault) == SwallowToFalse(IsVisibleTry(d, sel, fault))

\* The try body of is_element_enabled().
IsEnabledTry(d, sel, fault) ==
    IF FindRaises(fault) THEN Raise ELSE IsEnabledQuery(d, sel, fault)

is_element_enabled(d, sel, fault) == SwallowToFalse(IsEnabledTry(d, sel, fault))

\* A primitive's call and result: el is the element the selector matched
\* when it was called.
PageRecord(op, d, sel, fault, r) ==
    [op |-> op, selector |-> sel, el |-> Match(d, sel), fault |-> fault,
     raised |-> r.raised, value |-> r.value]

\* ---------------------------------------------------------------- fail-fast primitives
\* Upper end of the per-call timeout overrides the model draws.
MaxOverride == 2

\* EnvironmentConfig.timeout, the page-level timeout of BasePage.__init__.
PageTimeout == 30000

\* An optional value: <<>> is None, <<v>> is the value v.
NoValue == <<>>

Overrides == {NoValue} \cup {<<t>> : t \in 0..MaxOverride}

\* `timeout or self.timeout`
EffectiveTimeout(override, pageTimeout) ==
    IF override = NoValue \/ override[1] = 0 THEN pageTimeout ELSE override[1]

TryOps == {"click_element", "fill_input", "get_text", "get_attribute",
           "wait_for_element_visible", "wait_for_element_hidden",
           "select_dropdown_option", "hover_element", "scroll_to_element"}

AssertOps == {"assert_element_visible", "assert_element_hidden",
              "assert_text_equals", "assert_text_contains"}

\* The primitives that take a timeout argument.
TimedOps == (TryOps \ {"scroll_to_element"}) \cup AssertOps

\* Variant of Steps: click, fill and hover act without waiting first.
StepsNoWait(op) ==
    CASE op = "click_element" -> <<"locator", "click">>
      [] op = "fill_input" -> <<"locator", "clear", "fill">>
      [] op = "hover_element" -> <<"locator", "hover">>
      [] OTHER -> <<"locator">>

\* The engine calls of a primitive, in the order its body makes them.
Steps(op) ==
    CASE op = "click_element" -> <<"locator", "wait_for:visible", "click">>
      [] op = "fill_input" -> <<"locator", "wait_for:visible", "clear", "fill">>
      [] op = "get_text" -> <<"locator", "wait_for:visible", "text_content">>
      [] op = "get_attribute" -> <<"locator", "wait_for:attached", "get_attribute">>
      [] op = "wait_for_element_visible" -> <<"locator", "wait_for:visible">>
      [] op = "wait_for_element_hidden" -> <<"locator", "wait_for:hidden">>
      [] op = "select_dropdown_option" ->
            <<"locator", "wait_for:visible", "select_option">>
      [] op = "hover_element" -> <<"locator", "wait_for:visible", "hover">>
      [] op = "scroll_to_element" -> <<"locator", "scroll_into_view_if_needed">>
      [] op = "assert_element_visible" -> <<"locator", "expect:to_be_visible">>
      [] op = "assert_element_hidden" -> <<"locator", "expect:to_be_hidden">>
      [] op = "assert_text_equals" -> <<"locator", "expect:to_have_text">>
      [] op = "assert_text_contains" -> <<"locator", "expect:to_contain_text">>

\* The calls that change the element: click, clear, fill, hover, select.
ActionCalls == {"click", "clear", "fill", "hover", "select_option"}

\* The calls that are given the timeout.
TimedCalls == {"wait_for:visible", "wait_for:hidden", "wait_for:attached",
               "expect:to_be_visible", "expect:to_be_hidden",
               "expect:to_have_text", "expect:to_contain_text"}

\* What the engine raises for a call on element el ("none": it returns):
\* a wait or an action that cannot complete times out, an expectation that
\* does not hold by the timeout is an assertion failure, and a malformed
\* selector is an error at the first call that resolves it. matches says
\* whether the text of the element is the expected one.
CallError(call, el, valid, matches) ==
    IF call = "locator" THEN "none"
    ELSE IF ~valid THEN "Error"
    ELSE CASE call = "wait_for:visible" ->
                IF el.state = "visible" THEN "none" ELSE "TimeoutError"
           [] call = "wait_for:hidden" ->
                IF el.state = "visible" THEN "TimeoutError" ELSE "none"
           [] call \in {"wait_for:attached", "text_content", "get_attribute",
                        "scroll_into_view_if_needed"} ->
                IF el.state = "absent" THEN "TimeoutError" ELSE "none"
           [] call = "hover" ->
                IF el.state = "visible" THEN "none" ELSE "TimeoutError"
           [] call \in {"click", "clear", "fill", "select_option"} ->
                IF el.state = "visible" /\ el.enabled THEN "none" ELSE "TimeoutError"
           [] call = "expect:to_be_visible" ->
                IF el.state = "visible" THEN "none" ELSE "AssertionError"
           [] call = "expect:to_be_hidden" ->
                IF el.state = "visible" THEN "AssertionError" ELSE "none"
           [] call \in {"expect:to_have_text", "expect:to_contain_text"} ->
                IF el.state # "absent" /\ matches THEN "none" ELSE "AssertionError"

\* What call i of the steps raises; faultAt is the call at which the engine
\* fails for a reason of its own (0: at none).
StepError(steps, i, el, valid, matches, faultAt) ==
    IF i = faultAt THEN "Error" ELSE CallError(steps[i], el, valid, matches)

\* The first call that raises (0: none does): the body ends there.
FirstRaise(steps, el, valid, matches, faultAt) ==
    LET bad == {i \in 1..Len(steps) :
                    StepError(steps, i, el, valid, matches, faultAt) # "none"}
    IN  IF bad = {} THEN 0 ELSE CHOOSE i \in bad : \A j \in bad : i <= j

\* The calls a primitive issues, the raising one included.
Issued(steps, el, valid, matches, faultAt) ==
    LET f == FirstRaise(steps, el, valid, matches, faultAt)
    IN  IF f = 0 THEN steps ELSE SubSeq(steps, 1, f)

EngineError(steps, el, valid, matches, faultAt) ==
    LET f == FirstRaise(steps, el, valid, matches, faultAt)
    IN  IF f = 0 THEN "none" ELSE StepError(steps, f, el, valid, matches, faultAt)

\* Variant of Reraise: the except clause logs and returns.
ReraiseSwallows(op, e) == "none"

\* `except Exception as e: logger.error(...); raise` of the primitives with a
\* try block; the assertions have none and let the error through.
Reraise(op, e) == e

\* A primitive called with selector sel and timeout override.
Primitive(op, d, sel, override, matches, faultAt) ==
    LET el    == Match(d, sel)
        valid == sel \in ValidSelectors
        calls == Issued(Steps(op), el, valid, matches, faultAt)
        raw   == EngineError(Steps(op), el, valid, matches, faultAt)
    IN  [op |-> op, selector |-> sel, el |-> el, override |-> override,
         calls |-> calls,
         timeout |-> IF \E i \in 1..Len(calls) : calls[i] \in TimedCalls
                     THEN <<EffectiveTimeout(override, PageTimeout)>>
                     ELSE NoValue,
         engineError |-> raw,
         error |-> Reraise(op, raw)]

\* ---------------------------------------------------------------- text of an element
\* Longest text content the model draws.
MaxTextLen == 2

\* What element.text_content() returns: None, or a string of blanks and
\* letters (a sequence of characters).
TextContents ==
    {NoValue} \cup {<<t>> : t \in UNION {[1..n -> {" ", "x"}] : n \in 0..MaxTextLen}}

\* A string without its leading and trailing blanks.
Strip(s) ==
    LET keep == {i \in 1..Len(s) : s[i] # " "}
    IN  IF keep = {} THEN <<>>
        ELSE SubSeq(s, CHOOSE i \in keep : \A j \in keep : i <= j,
                       CHOOSE i \in keep : \A j \in keep : j <= i)

\* Variant of TextOrEmpty: the text is trimmed before it is returned.
TextOrEmptyStripped(content) ==
    IF content = NoValue THEN <<>> ELSE Strip(content[1])

\* `element.text_content() or ""`
TextOrEmpty(content) ==
    IF content = NoValue \/ content[1] = <<>> THEN <<>> ELSE content[1]

\* get_text(selector): the lookup and the wait of the primitive, then the
\* text of the element; content is what text_content() returns for it.
get_text(d, sel, content, faultAt) ==
    LET r == Primitive("get_text", d, sel, NoValue, TRUE, faultAt)
    IN  [op |-> "get_text", selector |-> sel, el |-> r.el, content |-> content,
         error |-> r.error,
         value |-> IF r.error = "none" THEN <<TextOrEmpty(content)>> ELSE NoValue]

\* ---------------------------------------------------------------- input fields
\* What an input may hold and what a test may enter: nothing, one character,
\* two characters.
FieldValues == {<<>>, <<"x">>, <<"x", " ">>}

\* Variant of CallEffect: no engine call changes the field.
CallEffectKeeps(call, content, value) == content

\* What an engine call that returned did to the value of the input:
\* element.clear() empties it, element.fill(value) replaces it by value.
CallEffect(call, content, value) ==
    CASE call = "clear" -> <<>>
      [] call = "fill" -> value
      [] OTHER -> content

\* fill_input(selector, value) on an input holding content: the calls that
\* returned before the first raise act on the field in their order.
fill_input(d, sel, content, value, faultAt) ==
    LET r == Primitive("fill_input", d, sel, NoValue, TRUE, faultAt)
        done == IF r.engineError = "none" THEN r.calls
                ELSE SubSeq(r.calls, 1, Len(r.calls) - 1)
        RECURSIVE After(_)
        After(n) == IF n = 0 THEN content
                    ELSE CallEffect(done[n], After(n - 1), value)
    IN  [op |-> "fill_input", selector |-> sel, el |-> r.el, before |-> content,
         value |-> value, calls |-> r.calls, error |-> r.error,
         after |-> After(Len(done))]

\* ---------------------------------------------------------------- URL assertion
\* The URLs the page shows and the parts a test expects, as strings over
\* three letters.
Urls == {<<"a">>, <<"b", "a", "b">>}

ExpectedParts == {<<"a", "b">>, <<"c">>}

\* Variant of Contains: the part must be at the start of the string.
ContainsAtStart(s, part) ==
    Len(part) <= Len(s) /\ SubSeq(s, 1, Len(part)) = part

\* `expected_part in current_url`
Contains(s, part) ==
    \E i \in 0..(Len(s) - Len(part)) : SubSeq(s, i + 1, i + Len(part)) = part

\* assert_url_contains(expected_part): get_current_url() of the handler,
\* guarded as every Ready-only operation, then one assert on the value read.
assert_url_contains(notReady, current_url, expected_part) ==
    LET holds == Contains(current_url, expected_part)
    IN  [op |-> "assert_url_contains", expected |-> expected_part,
         ready |-> ~notReady,
         url |-> IF notReady THEN NoValue ELSE <<current_url>>,
         reads |-> IF notReady THEN 0 ELSE 1,
         error |-> IF notReady THEN "not_ready"
                   ELSE IF holds THEN "none" ELSE "AssertionError",
         message |-> IF notReady \/ holds THEN <<>>
                     ELSE <<"URL '">> \o current_url \o <<"' does not contain '">>
                          \o expected_part \o <<"'">>]

\* ---------------------------------------------------------------- by-name lookups
\* Number of products of the shop.
MaxProducts == 3

\* Variant of ProductName: every product has one and the same name.
ProductNameShared(p) == <<"a">>

\* The name of a product: product p is named "a" repeated p times, so that
\* every name is the start of the next.
ProductName(p) == [i \in 1..p |-> "a"]

\* The names a test looks up: every product's, and one no product has.
Targets == {ProductName(p) : p \in 1..MaxProducts} \cup {<<"b">>}

\* Variant of FirstMatch: an item matches when its name starts with the
\* target.
FirstMatchByPrefix(items, product_name) ==
    LET hits == {i \in 1..Len(items) :
                    ContainsAtStart(ProductName(items[i]), product_name)}
    IN  IF hits = {} THEN 0 ELSE CHOOSE i \in hits : \A j \in hits : i <= j

\* `for item in item_elements: if name_element.text_content() == product_name`:
\* the position of the first item with that name (0: none has it).
FirstMatch(items, product_name) ==
    LET hits == {i \in 1..Len(items) : ProductName(items[i]) = product_name}
    IN  IF hits = {} THEN 0 ELSE CHOOSE i \in hits : \A j \in hits : i <= j

\* remove_item_by_name / add_product_to_cart_by_name over the items that
\* find_elements() matched: the click on the button of the first match, or
\* the ValueError. An inventory item already in the cart has no add button,
\* and the click on it times out.
ByName(op, items, inCart, product_name) ==
    LET i == FirstMatch(items, product_name)
    IN  [op |-> op, target |-> product_name, items |-> items,
         clicked |-> IF i = 0 THEN <<>> ELSE <<items[i]>>,
         error |-> IF i = 0 THEN "ValueError"
                   ELSE IF op = "add_product_to_cart_by_name" /\ items[i] \in inCart
                   THEN "TimeoutError" ELSE "none",
         message |-> IF i # 0 THEN <<>>
                     ELSE <<"Product '">> \o product_name \o
                          <<IF op = "remove_item_by_name"
                            THEN "' not found in cart"
                            ELSE "' not found on the page">>]

\* Variant of get_cart_item_names: only the first row is read.
get_cart_item_names_first(items) ==
    [i \in 1..(IF items = <<>> THEN 0 ELSE 1) |-> ProductName(items[i])]

\* get_cart_item_names(): the names the rows of the cart show, in row order.
get_cart_item_names(items) == [i \in 1..Len(items) |-> ProductName(items[i])]

\* remove_all_items() on a cart with the rows `items`: the names are read
\* once, then remove_item_by_name(name) is called for each of them on the
\* rows the cart holds by then; a click takes its row out of the cart. The
\* faultAt-th click fails in the engine (0: none does).
remove_all_items(items, faultAt) ==
    LET names == get_cart_item_names(items)
        RECURSIVE Run(_, _, _)
        Run(k, rows, clicked) ==
            IF k > Len(names)
            THEN [error |-> "none", message |-> <<>>, left |-> rows, clicked |-> clicked]
            ELSE LET r == ByName("remove_item_by_name", rows, {}, names[k])
                     i == FirstMatch(rows, names[k])
                 IN  IF r.error # "none"
                     THEN [error |-> r.error, message |-> r.message, left |-> rows,
                           clicked |-> clicked]
                     ELSE IF k = faultAt
                     THEN [error |-> "TimeoutError", message |-> <<>>, left |-> rows,
                           clicked |-> clicked]
                     ELSE Run(k + 1, [j \in 1..(Len(rows) - 1) |->
                                         IF j < i THEN rows[j] ELSE rows[j + 1]],
                              Append(clicked, rows[i]))
        end == Run(1, items, <<>>)
    IN  [op |-> "remove_all_items", target |-> <<>>, items |-> items,
         names |-> names, clicked |-> end.clicked, error |-> end.error,
         message |-> end.message, left |-> end.left]

\* ---------------------------------------------------------------- failure screenshot
\* Where the screenshot step may fail: evaluating the timestamp, taking the
\* screenshot, opening the file, attaching it to the report.
ShotFaults == {"none", "evaluate", "screenshot", "open", "attach"}

NoShot == [ran |-> FALSE, fault |-> "none", raised |-> FALSE, logged |-> FALSE,
           attached |-> FALSE]

\* The teardown of screenshot_on_failure: the `if`, the timestamp evaluated
\* before the try, then the try whose except clause logs.
screenshot_on_failure(failed, init, evalRaises, shotRaises, fault) ==
    IF ~(failed /\ init) THEN NoShot
    ELSE IF evalRaises
    THEN [ran |-> TRUE, fault |-> fault, raised |-> TRUE, logged |-> FALSE,
          attached |-> FALSE]
    ELSE LET tryRaises == shotRaises \/ fault \in {"open", "attach"}
         IN  [ran |-> TRUE, fault |-> fault, raised |-> FALSE,
              logged |-> tryRaises, attached |-> ~tryRaises]

\* Variant of TeardownPc: the fixtures are torn down in their setup order.
TeardownPcSetupOrder(fixture) ==
    IF fixture = "browser" THEN [from |-> "ran", to |-> "shot"]
    ELSE [from |-> "shot", to |-> "finished"]

\* Where in the teardown of a test a fixture is finalized: pytest finalizes
\* in the reverse of the setup order, and screenshot_on_failure, which takes
\* `browser` as an argument, is set up after it.
TeardownPc(fixture) ==
    IF fixture = "screenshot_on_failure" THEN [from |-> "ran", to |-> "shot"]
    ELSE [from |-> "shot", to |-> "finished"]

\* ---------------------------------------------------------------- command-line runner
\* Largest return code of a subprocess the model draws.
MaxReturnCode == 2

\* How a step of main() ends: it returns a code, raises an Exception, or
\* the user interrupts it (KeyboardInterrupt).
Outcomes ==
    [kind : {"returns"}, rc : 0..MaxReturnCode] \cup
    {[kind |-> "raises", rc |-> 0], [kind |-> "interrupt", rc |-> 0]}

\* main(): the if/elif chain, in which --clean, --install and --report come
\* before the test selection, then generate_allure_report() when a test
\* selection was given, all inside one try; first is how the branch taken
\* ends, after how the report generation that follows ends.
main(utility, selection, first, after) ==
    LET branch == IF utility # "none" THEN utility
                  ELSE IF selection # "none" THEN "tests" ELSE "help"
        code1  == IF branch \in {"help", "clean"} THEN IF branch = "help" THEN 1 ELSE 0
                  ELSE first.rc
        done1  == branch = "help" \/ first.kind = "returns"
        report == done1 /\ selection # "none"
        last   == IF ~done1 THEN first.kind
                  ELSE IF report THEN after.kind ELSE "returns"
    IN  [op |-> "main", utility |-> utility, selection |-> selection,
         pytestRc |-> IF branch = "tests" /\ first.kind = "returns"
                      THEN <<first.rc>> ELSE NoValue,
         reportCalled |-> report,
         reportOutcome |-> IF report THEN after ELSE [kind |-> "returns", rc |-> 0],
         interrupted |-> last = "interrupt",
         exit_code |-> CASE last = "interrupt" -> 130
                         [] last = "raises" -> 1
                         [] OTHER -> code1]

\* ---------------------------------------------------------------- configuration
\* The logical user names a configuration file may define.
UserKeys == {"standard_user", "locked_out_user", "problem_user",
             "performance_glitch_user"}

\* The `users` mappings a file may hold: entries in file order, no key
\* twice, each with the data of a UserConfig.
Snapshots ==
    {[i \in 1..Len(keys) |->
         [key |-> keys[i],
          data |-> [username |-> keys[i], password |-> "secret_sauce"]]] :
       keys \in {k \in UNION {[1..n -> UserKeys] : n \in 0..Cardinality(UserKeys)} :
                    \A i, j \in 1..Len(k) : k[i] = k[j] => i = j}}

\* Variant of AvailableUsers: the error names no known user.
AvailableUsersNone(snapshot) == <<>>

\* `available_users = list(users.keys())`
AvailableUsers(snapshot) == [i \in 1..Len(snapshot) |-> snapshot[i].key]

\* get_user(username) over the users mapping rebuilt from the snapshot.
get_user(snapshot, username) ==
    LET hits == {i \in 1..Len(snapshot) : snapshot[i].key = username}
    IN  IF hits = {}
        THEN [op |-> "get_user", username |-> username, snapshot |-> snapshot,
              error |-> "KeyError", value |-> NoValue,
              message |-> <<"User '", username, "' not found. Available users: ">>
                          \o AvailableUsers(snapshot)]
        ELSE [op |-> "get_user", username |-> username, snapshot |-> snapshot,
              error |-> "none", value |-> <<snapshot[CHOOSE i \in hits : TRUE].data>>,
              message |-> <<>>]

\* The accessors next to get_user, one per section of the file.
Sections == {"environment", "users", "test_data", "reporting", "logging"}

\* Variant of AccessorReads: the accessor loads the file again.
AccessorReadsOnce(op) == 1

\* The times an accessor opens the configuration file: its body builds its
\* value from self._config_data and never calls _load_config().
AccessorReads(op) == 0

\* `XConfig(**self._config_data.get(section, {}))`, and for users the
\* mapping of every entry to its UserConfig.
Project(op, snapshot, other) ==
    [op |-> op, username |-> "", snapshot |-> snapshot, error |-> "none",
     value |-> IF op = "users"
               THEN <<[i \in 1..Len(snapshot) |-> snapshot[i]]>>
               ELSE <<[section |-> op, data |-> other]>>,
     message |-> <<>>]

\* ---------------------------------------------------------------- cart indicator
\* The cart indicator of the shop as the tests expect it of the
\* application: an element, here at "#first", that is there only while the
\* cart holds items.
BadgeDom(n) ==
    [sel \in ValidSelectors |->
        IF sel = "#first" /\ n > 0 THEN [state |-> "visible", enabled |-> TRUE]
        ELSE [state |-> "absent", enabled |-> FALSE]]

\* assert_cart_badge_count(expected), assert_no_cart_badge_visible() and
\* get_cart_badge_count() on a page whose cart holds n items and whose
\* indicator shows the text `shown`.
CartBadge(op, n, shown, expected) ==
    LET d       == BadgeDom(n)
        visible == Primitive("assert_element_visible", d, "#first", NoValue, TRUE, 0)
        equals  == Primitive("assert_text_equals", d, "#first", NoValue,
                             shown = expected, 0)
        hidden  == Primitive("assert_element_hidden", d, "#first", NoValue, TRUE, 0)
        text    == get_text(d, "#first", <<shown>>, 0)
        isThere == is_element_visible(d, "#first", "none").value
    IN  [op |-> op, target |-> expected, items |-> n, clicked |-> <<>>,
         message |-> <<>>,
         error |-> CASE op = "assert_cart_badge_count" ->
                          IF visible.error # "none" THEN visible.error
                          ELSE equals.error
                     [] op = "assert_no_cart_badge_visible" -> hidden.error
                     [] op = "get_cart_badge_count" ->
                          IF isThere THEN text.error ELSE "none",
         value |-> IF op = "get_cart_badge_count" /\ isThere THEN text.value
                   ELSE NoValue]

\* ---------------------------------------------------------------- initial state
InitHandler ==
    /\ playwright = None
    /\ browser = None
    /\ context = None
    /\ page = None
    /\ is_initialized = FALSE
    /\ gen = 0
    /\ live = {}
    /\ lastOp = OpRecord("__init__", FALSE, "none", FALSE, "none", {})
    /\ lastCleanup = NoCleanup
    /\ everClosed = FALSE

InitFixture ==
    /\ fixturePc = "idle"
    /\ testOutcome = "none"
    /\ fixtureCleanups = 0
    /\ testGen = None
    /\ shotResult = NoShot

InitPage ==
    /\ dom = [sel \in ValidSelectors |-> [state |-> "absent", enabled |-> FALSE]]
    /\ pageResult = [op |-> "__init__", selector |-> "#first",
                     el |-> [state |-> "absent", enabled |-> FALSE],
                     fault |-> "none", raised |-> FALSE, value |-> FALSE]

InitPrim ==
    primResult = [op |-> "__init__", selector |-> "#first",
                  el |-> [state |-> "absent", enabled |-> FALSE],
                  override |-> NoValue, calls |-> <<>>, timeout |-> NoValue,
                  engineError |-> "none", error |-> "none"]

\* The page objects, the runner and the configuration before their first call.
InitUpper ==
    /\ text_content = NoValue
    /\ textResult = [op |-> "__init__", selector |-> "#first",
                     el |-> [state |-> "absent", enabled |-> FALSE],
                     content |-> NoValue, error |-> "none", value |-> NoValue]
    /\ url = <<"a">>
    /\ urlResult = [op |-> "__init__", expected |-> <<>>, ready |-> FALSE,
                    url |-> NoValue, reads |-> 0, error |-> "none",
                    message |-> <<>>]
    /\ cart = <<>>
    /\ inventory = [i \in 1..MaxProducts |-> i]
    /\ listResult = [op |-> "__init__", target |-> <<>>, items |-> <<>>,
                     clicked |-> <<>>, error |-> "none", message |-> <<>>]
    /\ cliResult = [op |-> "__init__", utility |-> "none", selection |-> "none",
                    pytestRc |-> NoValue, reportCalled |-> FALSE,
                    reportOutcome |-> [kind |-> "returns", rc |-> 0],
                    interrupted |-> FALSE, exit_code |-> 0]
    /\ users = <<>>
    /\ userResult = [op |-> "__init__", username |-> "", snapshot |-> <<>>,
                     error |-> "none", value |-> NoValue, message |-> <<>>]

\* The module-level loader has read its file; no page object is built yet.
InitLate ==
    /\ settings = "a"
    /\ fileReads = 1
    /\ pageObject = [page |-> None, op |-> "none", target |-> None,
                     current |-> None, ready |-> FALSE]
    /\ input_value = <<>>
    /\ fillResult = [op |-> "__init__", selector |-> "#first",
                     el |-> [state |-> "absent", enabled |-> FALSE],
                     before |-> <<>>, value |-> <<>>, calls |-> <<>>,
                     error |-> "none", after |-> <<>>]

Init == InitHandler /\ InitFixture /\ InitPage /\ InitPrim /\ InitUpper /\ InitLate

\* ---------------------------------------------------------------- handler actions
StartBrowser ==
    /\ \E failStep \in StartSteps \cup {"none"}, failing \in FailSets :
           DoStart(failStep, failing)
    /\ UNCHANGED <<fixtureVars, pageVars, extVars>>

Cleanup ==
    /\ \E failing \in FailSets : DoCleanup(failing)
    /\ UNCHANGED <<fixtureVars, pageVars, extVars>>

NavigateTo ==
    /\ \E fails \in BOOLEAN : PageOp("navigate_to", TRUE, fails)
    /\ UNCHANGED <<fixtureVars, pageVars, extVars>>

TakeScreenshot ==
    /\ \E fails \in BOOLEAN : PageOp("take_screenshot", TRUE, fails)
    /\ UNCHANGED <<fixtureVars, pageVars, extVars>>

WaitForLoadState ==
    /\ \E fails \in BOOLEAN : PageOp("wait_for_load_state", TRUE, fails)
    /\ UNCHANGED <<fixtureVars, pageVars, extVars>>

ExecuteJavascript ==
    /\ \E fails \in BOOLEAN : PageOp("execute_javascript", TRUE, fails)
    /\ UNCHANGED <<fixtureVars, pageVars, extVars>>

GetCurrentUrl ==
    /\ PageOp("get_current_url", FALSE, FALSE)
    /\ UNCHANGED <<fixtureVars, pageVars, extVars>>

GetPageTitle ==
    /\ \E fails \in BOOLEAN : PageOp("get_page_title", TRUE, fails)
    /\ UNCHANGED <<fixtureVars, pageVars, extVars>>

RefreshPage ==
    /\ \E fails \in BOOLEAN : PageOp("refresh_page", TRUE, fails)
    /\ UNCHANGED <<fixtureVars, pageVars, extVars>>

PageAccessor ==
    /\ Accessor("page", page)
    /\ UNCHANGED <<fixtureVars, pageVars, extVars>>

ContextAccessor ==
    /\ Accessor("context", context)
    /\ UNCHANGED <<fixtureVars, pageVars, extVars>>

Next ==
    \/ StartBrowser
    \/ Cleanup
    \/ NavigateTo
    \/ TakeScreenshot
    \/ WaitForLoadState
    \/ ExecuteJavascript
    \/ GetCurrentUrl
    \/ GetPageTitle
    \/ RefreshPage
    \/ PageAccessor
    \/ ContextAccessor

Spec == Init /\ [][Next]_vars

\* ---------------------------------------------------------------- browser fixture
\* The fixture up to its yield: start_browser(); when that raises, the except
\* clause logs and re-raises and the finally clause calls cleanup().
FixtureSetup ==
    /\ fixturePc \in {"idle", "finished"}
    /\ WithinBound(HS)
    /\ \E failStep \in StartSteps \cup {"none"}, failing \in FailSets,
          failing2 \in FailSets :
           LET started == AfterStart(HS, failStep, failing)
               rec     == StartRecord(HS, failStep)
           IN  /\ testGen' = IF StartSkips(is_initialized) THEN testGen ELSE gen + 1
               /\ IF rec.raised = "none"
                  THEN /\ SetHandler(started)
                       /\ lastOp' = rec
                       /\ lastCleanup' = NoCleanup
                       /\ fixturePc' = "body"
                       /\ testOutcome' = "none"
                       /\ fixtureCleanups' = 0
                  ELSE /\ SetHandler(AfterCleanup(started, failing2))
                       /\ lastOp' = OpRecord("cleanup", started.init, "none",
                                             FALSE, "none", {})
                       /\ lastCleanup' = CleanupRecord(started.h, failing2)
                       /\ fixturePc' = "finished"
                       /\ testOutcome' = "setup_error"
                       /\ fixtureCleanups' = 1
    /\ shotResult' = NoShot
    /\ UNCHANGED <<pageVars, extVars>>

\* The test the fixture serves: it drives the page and passes, fails an
\* assertion or raises.
TestBody ==
    /\ fixturePc = "body"
    /\ \E fails \in BOOLEAN : PageOp("navigate_to", TRUE, fails)
    /\ \E outcome \in {"passed", "failed", "raised"} :
           testOutcome' = IF lastOp'.raised # "none" THEN "raised" ELSE outcome
    /\ fixturePc' = "ran"
    /\ UNCHANGED <<fixtureCleanups, testGen, shotResult, pageVars, extVars>>

\* screenshot_on_failure after its yield; it depends on the browser fixture
\* and so is torn down before it. The timestamp is evaluated on the page of
\* the handler, the screenshot taken by take_screenshot().
ScreenshotOnFailure ==
    /\ fixturePc = TeardownPc("screenshot_on_failure").from
    /\ LET failed == testOutcome \in {"failed", "raised"}
           runs   == failed /\ is_initialized
       IN  \E fault \in IF runs THEN ShotFaults ELSE {"none"} :
               LET evalRaises == EngineRaises(fault = "evaluate")
                   shotRaises == EngineRaises(fault = "screenshot")
               IN  /\ shotResult' = screenshot_on_failure(failed, is_initialized,
                                                          evalRaises, shotRaises, fault)
                   /\ IF runs /\ ~evalRaises
                      THEN PageOp("take_screenshot", TRUE, fault = "screenshot")
                      ELSE IF runs THEN Accessor("page", page)
                      ELSE UNCHANGED handlerVars
    /\ fixturePc' = TeardownPc("screenshot_on_failure").to
    /\ UNCHANGED <<testOutcome, fixtureCleanups, testGen, pageVars, extVars>>

\* The browser fixture after its yield: the finally clause calls cleanup().
FixtureTeardown ==
    /\ fixturePc = TeardownPc("browser").from
    /\ \E failing \in FailSets : DoCleanup(failing)
    /\ fixturePc' = TeardownPc("browser").to
    /\ fixtureCleanups' = fixtureCleanups + 1
    /\ UNCHANGED <<testOutcome, testGen, shotResult, pageVars, extVars>>

NextFixture ==
    \/ FixtureSetup
    \/ TestBody
    \/ ScreenshotOnFailure
    \/ FixtureTeardown

SpecFixture == Init /\ [][NextFixture]_vars

\* ---------------------------------------------------------------- page actions
IsElementVisible ==
    /\ \E sel \in Selectors, fault \in Faults :
           pageResult' = PageRecord("is_element_visible", dom, sel, fault,
                                    is_element_visible(dom, sel, fault))
    /\ UNCHANGED <<dom, handlerVars, fixtureVars, extVars>>

IsElementEnabled ==
    /\ \E sel \in Selectors, fault \in Faults :
           pageResult' = PageRecord("is_element_enabled", dom, sel, fault,
                                    is_element_enabled(dom, sel, fault))
    /\ UNCHANGED <<dom, handlerVars, fixtureVars, extVars>>

\* The application under test changes an element.
DomChange ==
    /\ \E sel \in ValidSelectors, el \in Elements :
           /\ el # dom[sel]
           /\ dom' = [dom EXCEPT ![sel] = el]
    /\ UNCHANGED <<pageResult, handlerVars, fixtureVars, extVars>>

NextPage ==
    \/ IsElementVisible
    \/ IsElementEnabled
    \/ DomChange

SpecPage == Init /\ [][NextPage]_vars

\* ---------------------------------------------------------------- primitive actions
\* The selectors the primitives are called with: one well formed, one not.
PrimSelectors == {"#first", "!!bad"}

\* The inputs of one call: an override is drawn for the primitives that take
\* one, a text mismatch for the text assertions, and an engine fault of its
\* own only on calls that draw neither.
PrimInputs(op) ==
    {in \in [override : Overrides, matches : BOOLEAN,
             faultAt : 0..Len(Steps(op))] :
        /\ (op \in TimedOps \/ in.override = NoValue)
        /\ (op \in {"assert_text_equals", "assert_text_contains"} \/ in.matches)
        /\ (in.faultAt = 0 \/ (in.override = NoValue /\ in.matches))}

DoPrimitive(op) ==
    /\ \E sel \in PrimSelectors, in \in PrimInputs(op) :
           primResult' = Primitive(op, dom, sel, in.override, in.matches, in.faultAt)
    /\ UNCHANGED <<dom, pageResult, handlerVars, fixtureVars, upperVars>>

ClickElement == DoPrimitive("click_element")

FillInput == DoPrimitive("fill_input")

GetText == DoPrimitive("get_text")

GetAttribute == DoPrimitive("get_attribute")

WaitForElementVisible == DoPrimitive("wait_for_element_visible")

WaitForElementHidden == DoPrimitive("wait_for_element_hidden")

SelectDropdownOption == DoPrimitive("select_dropdown_option")

HoverElement == DoPrimitive("hover_element")

ScrollToElement == DoPrimitive("scroll_to_element")

AssertElementVisible == DoPrimitive("assert_element_visible")

AssertElementHidden == DoPrimitive("assert_element_hidden")

AssertTextEquals == DoPrimitive("assert_text_equals")

AssertTextContains == DoPrimitive("assert_text_contains")

\* The application under test changes an element between two primitives.
PrimDomChange ==
    /\ \E sel \in PrimSelectors \cap ValidSelectors, el \in Elements :
           /\ el # dom[sel]
           /\ dom' = [dom EXCEPT ![sel] = el]
    /\ UNCHANGED <<pageResult, primResult, handlerVars, fixtureVars, upperVars>>

NextPrim ==
    \/ ClickElement
    \/ FillInput
    \/ GetText
    \/ GetAttribute
    \/ WaitForElementVisible
    \/ WaitForElementHidden
    \/ SelectDropdownOption
    \/ HoverElement
    \/ ScrollToElement
    \/ AssertElementVisible
    \/ AssertElementHidden
    \/ AssertTextEquals
    \/ AssertTextContains
    \/ PrimDomChange

SpecPrim == Init /\ [][NextPrim]_vars

\* ---------------------------------------------------------------- text actions
GetTextValue ==
    /\ \E sel \in PrimSelectors, faultAt \in 0..Len(Steps("get_text")) :
           textResult' = get_text(dom, sel, text_content, faultAt)
    /\ UNCHANGED <<lowerVars, lateVars, text_content, url, urlResult, cart, inventory,
                   listResult, cliResult, users, userResult>>

\* The application under test changes the text of the element.
TextChange ==
    /\ \E content \in TextContents :
           /\ content # text_content
           /\ text_content' = content
    /\ UNCHANGED <<lowerVars, lateVars, textResult, url, urlResult, cart, inventory,
                   listResult, cliResult, users, userResult>>

NextText ==
    \/ GetTextValue
    \/ TextChange
    \/ PrimDomChange

SpecText == Init /\ [][NextText]_vars

\* ---------------------------------------------------------------- input field actions
\* enter_username(username) and clear_username_field(): fill_input on the
\* user name input, with the empty string to clear it.
EnterUsername ==
    /\ \E sel \in PrimSelectors, value \in FieldValues,
          faultAt \in 0..Len(Steps("fill_input")) :
           /\ fillResult' = fill_input(dom, sel, input_value, value, faultAt)
           /\ input_value' = fillResult'.after
    /\ UNCHANGED <<lowerVars, text_content, textResult, url, urlResult,
                   cart, inventory, listResult, cliResult, users, userResult, settings, fileReads, pageObject>>

\* The user or the application under test changes what the input holds.
FieldChange ==
    /\ \E value \in FieldValues :
           /\ value # input_value
           /\ input_value' = value
    /\ UNCHANGED <<lowerVars, text_content, textResult, url, urlResult,
                   cart, inventory, listResult, cliResult, users, userResult, settings, fileReads, pageObject,
                   fillResult>>

SpecField == Init /\ [][EnterUsername \/ FieldChange \/ PrimDomChange]_vars

\* ---------------------------------------------------------------- URL actions
AssertUrlContains ==
    /\ PageOp("get_current_url", FALSE, FALSE)
    /\ \E expected_part \in ExpectedParts :
           urlResult' = assert_url_contains(NotReady(is_initialized, page), url,
                                            expected_part)
    /\ UNCHANGED <<fixtureVars, pageVars, primVars, lateVars, text_content, textResult,
                   url, cart, inventory, listResult, cliResult, users,
                   userResult>>

\* The application under test navigates the open page.
UrlChange ==
    /\ ~NotReady(is_initialized, page)
    /\ \E u \in Urls :
           /\ u # url
           /\ url' = u
    /\ UNCHANGED <<lowerVars, lateVars, text_content, textResult, urlResult, cart,
                   inventory, listResult, cliResult, users, userResult>>

NextUrl ==
    \/ StartBrowser
    \/ Cleanup
    \/ AssertUrlContains
    \/ UrlChange

SpecUrl == Init /\ [][NextUrl]_vars

\* ---------------------------------------------------------------- by-name actions
\* CartPage.remove_item_by_name: the click on Remove takes the item out of
\* the cart.
RemoveItemByName ==
    /\ \E product_name \in Targets :
           LET r == ByName("remove_item_by_name", cart, {}, product_name)
               Kept(p) == p # r.clicked[1]
           IN  /\ listResult' = r
               /\ cart' = IF r.error = "none" THEN SelectSeq(cart, Kept) ELSE cart
    /\ UNCHANGED <<lowerVars, lateVars, text_content, textResult, url, urlResult,
                   inventory, cliResult, users, userResult>>

\* InventoryPage.add_product_to_cart_by_name: the click on Add to cart puts
\* the product at the end of the cart.
AddProductToCartByName ==
    /\ \E product_name \in Targets :
           LET r == ByName("add_product_to_cart_by_name", inventory,
                           {cart[i] : i \in 1..Len(cart)}, product_name)
           IN  /\ listResult' = r
               /\ cart' = IF r.error = "none" THEN Append(cart, r.clicked[1])
                          ELSE cart
    /\ UNCHANGED <<lowerVars, lateVars, text_content, textResult, url, urlResult,
                   inventory, cliResult, users, userResult>>

\* InventoryPage.sort_products('az' / 'za'): the list is shown in the other
\* order.
SortProducts ==
    /\ inventory' = [i \in 1..Len(inventory) |-> inventory[Len(inventory) + 1 - i]]
    /\ UNCHANGED <<lowerVars, lateVars, text_content, textResult, url, urlResult, cart,
                   listResult, cliResult, users, userResult>>

NextList ==
    \/ RemoveItemByName
    \/ AddProductToCartByName
    \/ SortProducts

SpecList == Init /\ [][NextList]_vars

\* ---------------------------------------------------------------- cart actions
RemoveAllItems ==
    /\ \E faultAt \in 0..Len(cart) :
           /\ listResult' = remove_all_items(cart, faultAt)
           /\ cart' = listResult'.left
    /\ UNCHANGED <<lowerVars, lateVars, text_content, textResult, url, urlResult,
                   inventory, cliResult, users, userResult>>

\* Another row appears in the cart; its name may be one a row already shows.
CartRowAdded ==
    /\ Len(cart) < MaxProducts
    /\ \E p \in 1..MaxProducts : cart' = Append(cart, p)
    /\ UNCHANGED <<lowerVars, lateVars, text_content, textResult, url, urlResult,
                   inventory, listResult, cliResult, users, userResult>>

SpecCart == Init /\ [][RemoveAllItems \/ CartRowAdded]_vars

\* ---------------------------------------------------------------- runner actions
\* One run of `python run_tests.py` with its flags. A test run and
\* install_dependencies() go through _execute_command(), which turns every
\* Exception into the code 1; clean_reports() returns no code.
Main ==
    /\ \E utility \in {"none", "clean", "install", "report"},
          selection \in {"none", "smoke", "regression", "negative", "all", "file"},
          first \in Outcomes, after \in Outcomes :
           /\ (utility \in {"none", "install"} => first.kind # "raises")
           /\ (utility = "clean" => first.rc = 0)
           /\ cliResult' = main(utility, selection, first, after)
    /\ UNCHANGED <<lowerVars, lateVars, text_content, textResult, url, urlResult, cart,
                   inventory, listResult, users, userResult>>

SpecCli == Init /\ [][Main]_vars

\* ---------------------------------------------------------------- configuration actions
\* ConfigLoader(config_file): a loader is constructed over a file; nothing
\* has been asked of it yet.
LoadConfig ==
    /\ \E snapshot \in Snapshots : users' = snapshot
    /\ \E other \in {"a", "b"} : settings' = other
    /\ fileReads' = 1
    /\ userResult' = [op |-> "__init__", username |-> "", snapshot |-> users',
                      error |-> "none", value |-> NoValue, message |-> <<>>]
    /\ UNCHANGED <<lowerVars, text_content, textResult, url, urlResult, cart,
                   inventory, listResult, cliResult, pageObject, input_value,
                   fillResult>>

GetUser ==
    /\ \E username \in UserKeys \cup {"nobody"} :
           userResult' = get_user(users, username)
    /\ fileReads' = fileReads + AccessorReads("get_user")
    /\ UNCHANGED <<lowerVars, text_content, textResult, url, urlResult, cart,
                   inventory, listResult, cliResult, users, settings,
                   pageObject, input_value, fillResult>>

\* The properties environment, users, test_data, reporting and logging.
ConfigAccessor ==
    /\ \E op \in Sections :
           /\ userResult' = Project(op, users, settings)
           /\ fileReads' = fileReads + AccessorReads(op)
    /\ UNCHANGED <<lowerVars, text_content, textResult, url, urlResult, cart,
                   inventory, listResult, cliResult, users, settings,
                   pageObject, input_value, fillResult>>

NextConfig ==
    \/ LoadConfig
    \/ GetUser
    \/ ConfigAccessor

SpecConfig == Init /\ [][NextConfig]_vars

\* ---------------------------------------------------------------- page object actions
\* BasePage.__init__: `self.page = browser_handler.page`, the guarded
\* accessor; when it raises no page object comes to be.
BasePageInit ==
    /\ Accessor("page", page)
    /\ pageObject' = IF NotReady(is_initialized, page) THEN pageObject
                     ELSE [page |-> page, op |-> "__init__", target |-> None,
                           current |-> page, ready |-> is_initialized]
    /\ UNCHANGED <<fixtureVars, pageVars, primVars, text_content, textResult,
                   url, urlResult, cart, inventory, listResult, cliResult,
                   users, userResult, settings, fileReads, input_value,
                   fillResult>>

\* find_element / find_elements on a page object that exists:
\* `self.page.locator(selector)`, on the page the object holds.
FindElement ==
    /\ pageObject.page # None
    /\ pageObject' = [pageObject EXCEPT !.op = "find_element",
                                         !.target = pageObject.page,
                                         !.current = page,
                                         !.ready = is_initialized]
    /\ UNCHANGED <<lowerVars, text_content, textResult, url, urlResult, cart,
                   inventory, listResult, cliResult, users, userResult,
                   settings, fileReads, input_value, fillResult>>

SpecObject == Init /\ [][StartBrowser \/ Cleanup \/ BasePageInit \/ FindElement]_vars

\* ---------------------------------------------------------------- cart indicator actions
\* A check of the indicator; the application shows the number of items of
\* the cart in it.
CartBadgeCall ==
    /\ \E op \in {"assert_cart_badge_count", "assert_no_cart_badge_visible",
                   "get_cart_badge_count"},
          expected \in {<<ToString(k)>> : k \in 1..MaxProducts} :
           /\ (op = "assert_cart_badge_count" \/ expected = <<"1">>)
           /\ listResult' = CartBadge(op, Len(cart), <<ToString(Len(cart))>>,
                                      expected)
    /\ UNCHANGED <<lowerVars, lateVars, text_content, textResult, url,
                   urlResult, cart, inventory, cliResult, users, userResult>>

SpecBadge ==
    Init /\ [][AddProductToCartByName \/ RemoveItemByName \/ CartBadgeCall]_vars

\* ================================================================ claims
\* C1: cleanup() is idempotent: of two cleanup() calls in succession neither
\* raises, and the handler is not initialized after the first and after the
\* second.
C1_CleanupIdempotent ==
    [][(lastOp.op = "cleanup" /\ lastOp'.op = "cleanup") =>
           /\ lastOp.raised = "none"
           /\ lastOp'.raised = "none"
           /\ ~is_initialized
           /\ ~is_initialized']_vars

\* C2: every release step of cleanup() whose resource was acquired is
\* attempted, whichever other steps fail.
C2_StepsIndependent ==
    lastCleanup.ran => lastCleanup.present \subseteq lastCleanup.attempted

\* C3: after cleanup() returns, whichever release steps failed, is_initialized
\* is false and the guard of every Ready-only operation rejects.
C3_CleanupAlwaysCloses ==
    lastOp.op = "cleanup" =>
        /\ ~is_initialized
        /\ NotReady(is_initialized, page)
        /\ NotReady(is_initialized, context)

\* C4: a Ready-only operation called while is_initialized is false (never
\* started, or closed by cleanup()) fails with the not-ready error and issues
\* no engine call; one that succeeds was called while is_initialized was true.
C4_NotReadyRejected ==
    lastOp.op \in ReadyOps =>
        /\ ~lastOp.wasInit => (lastOp.raised = "not_ready" /\ ~lastOp.issued)
        /\ lastOp.raised = "none" => lastOp.wasInit

\* C4 witness: an operation rejected on a handler that cleanup() closed and
\* whose handle fields still hold the closed page and context.
C4_Witness ==
    /\ lastOp.op \in ReadyOps
    /\ lastOp.raised = "not_ready"
    /\ everClosed
    /\ ~is_initialized
    /\ page # None
    /\ context # None

\* C5 (as claimed): once a cleanup() has closed the handler it is never
\* Ready again.
C5_ClosedTerminal == everClosed => ~is_initialized

\* C5 (amended): a start_browser() called while is_initialized is false, also
\* on a handler cleanup() has closed, whose launch steps all succeed makes
\* the handler Ready with a freshly acquired host, engine, context and page.
C5_RestartAfterClose ==
    (lastOp.op = "start_browser" /\ ~lastOp.wasInit /\ lastOp.failStep = "none") =>
        /\ is_initialized
        /\ \A k \in Kinds : Handles[k] = gen /\ <<k, gen>> \in live

\* C5 witness: a closed handler that a later start_browser() made Ready.
C5_Witness ==
    /\ everClosed
    /\ lastOp.op = "start_browser"
    /\ ~lastOp.wasInit
    /\ is_initialized
    /\ gen > 1

\* C6: start_browser() on a Ready handler raises nothing, acquires nothing
\* and leaves the handle fields and is_initialized unchanged.
C6_StartWhenReadyNoop ==
    [][(is_initialized /\ lastOp'.op = "start_browser") =>
           /\ lastOp'.raised = "none"
           /\ lastOp'.acquired = {}
           /\ UNCHANGED <<playwright, browser, context, page, is_initialized,
                          gen, live>>]_vars

\* C6 witness: start_browser() was called on a Ready handler.
C6_Witness ==
    /\ lastOp.op = "start_browser"
    /\ lastOp.wasInit
    /\ is_initialized

\* C7: when a step of start_browser() fails, every resource that call
\* acquired is released before the error is re-raised, and the handler is
\* left not initialized.
C7_FailedStartReleases ==
    (lastOp.op = "start_browser" /\ lastOp.raised = "launch") =>
        /\ ~is_initialized
        /\ \A k \in lastOp.acquired : <<k, gen>> \notin live

\* C8: at most one engine, one context and one page are acquired and not
\* yet released at any time.
C8_AtMostOneLive ==
    \A k \in {"browser", "context", "page"} :
        Cardinality({r \in live : r[1] = k}) <= 1

\* C9: whenever the browser fixture has finished, whatever the outcome of the
\* test and of start_browser(), the fixture has called cleanup() and no
\* engine, context or page acquired for that test is still live.
C9_FixtureAlwaysReleases ==
    fixturePc = "finished" =>
        /\ fixtureCleanups >= 1
        /\ \A k \in {"browser", "context", "page"} : <<k, testGen>> \notin live

\* C10: is_element_visible and is_element_enabled never raise, whatever the
\* selector and wherever the engine fails, and return FALSE for a selector
\* that matches no element.
C10_StateQueriesNeverRaise ==
    pageResult.op \in {"is_element_visible", "is_element_enabled"} =>
        /\ ~pageResult.raised
        /\ pageResult.el.state = "absent" => pageResult.value = FALSE

\* C10 witness: a state query on a selector matching nothing whose try body
\* raised, answered FALSE.
C10_Witness ==
    /\ pageResult.op = "is_element_enabled"
    /\ pageResult.selector \in ValidSelectors
    /\ pageResult.el.state = "absent"
    /\ pageResult.fault = "none"
    /\ dom[pageResult.selector] = pageResult.el
    /\ IsEnabledTry(dom, pageResult.selector, pageResult.fault).raised
    /\ ~pageResult.raised
    /\ pageResult.value = FALSE

\* C11: a primitive other than the two state queries raises to its caller
\* the very error the engine raised, never another and never none, and issues
\* each engine call at most once, none after the one that raised.
C11_FailFast ==
    primResult.op \in TryOps \cup AssertOps =>
        /\ primResult.error = primResult.engineError
        /\ \A i, j \in 1..Len(primResult.calls) :
               primResult.calls[i] = primResult.calls[j] => i = j
        /\ \E n \in 0..Len(Steps(primResult.op)) :
               primResult.calls = SubSeq(Steps(primResult.op), 1, n)

\* C11 witness: a click whose wait timed out and raised that timeout.
C11_Witness ==
    /\ primResult.op = "click_element"
    /\ primResult.engineError = "TimeoutError"
    /\ primResult.error = "TimeoutError"
    /\ primResult.calls = <<"locator", "wait_for:visible">>

\* C12: click_element, fill_input and hover_element issue their action only
\* after a wait for visibility that returned; on an element that is absent
\* or hidden they raise and issue no click, clear, fill or hover.
C12_ActAfterWait ==
    primResult.op \in {"click_element", "fill_input", "hover_element"} =>
        /\ \A i \in 1..Len(primResult.calls) :
               primResult.calls[i] \in ActionCalls =>
                   \E j \in 1..(i - 1) : primResult.calls[j] = "wait_for:visible"
        /\ primResult.el.state # "visible" =>
               /\ primResult.error # "none"
               /\ \A i \in 1..Len(primResult.calls) :
                      primResult.calls[i] \notin ActionCalls

\* C12 witness: a fill on a hidden element that stopped at the wait.
C12_Witness ==
    /\ primResult.op = "fill_input"
    /\ primResult.el.state = "hidden"
    /\ primResult.error = "TimeoutError"
    /\ primResult.calls = <<"locator", "wait_for:visible">>

\* C13: the timeout a timed primitive passes to its wait is the caller's
\* override whenever one is given, 0 included, and the page-level timeout
\* only when none is given.
C13_TimeoutOverride ==
    (primResult.op \in TimedOps /\ primResult.timeout # NoValue) =>
        primResult.timeout[1] =
            IF primResult.override = NoValue THEN PageTimeout
            ELSE primResult.override[1]

\* C14 (as claimed): get_text(selector) on a visible element returns the text
\* content of the element without its leading and trailing whitespace, and
\* the empty string when the element has no text content.
C14_TextTrimmed ==
    (textResult.op = "get_text" /\ textResult.el.state = "visible"
                                /\ textResult.error = "none") =>
        textResult.value =
            <<IF textResult.content = NoValue THEN <<>>
              ELSE Strip(textResult.content[1])>>

\* C14 (amended): get_text(selector) on a visible element returns the text
\* content of the element as it is, leading and trailing whitespace
\* included, and the empty string when the element has no text content.
C14_TextAsIs ==
    (textResult.op = "get_text" /\ textResult.el.state = "visible"
                                /\ textResult.error = "none") =>
        textResult.value =
            <<IF textResult.content = NoValue THEN <<>>
              ELSE textResult.content[1]>>

\* C14 witness: a visible element whose text starts with a blank, returned
\* with the blank.
C14_Witness ==
    /\ textResult.op = "get_text"
    /\ textResult.el.state = "visible"
    /\ textResult.error = "none"
    /\ textResult.content = <<<<" ", "x">>>>
    /\ textResult.value = <<<<" ", "x">>>>

\* C15: assert_url_contains(expected) on a Ready handler reads the URL of the
\* page exactly once, returns iff expected is a substring of the URL it
\* read, and otherwise raises an assertion failure whose message contains
\* that URL and expected; on a handler that is not Ready the guard rejects
\* the call before any read.
C15_UrlCheckedOnce ==
    urlResult.op = "assert_url_contains" =>
        IF urlResult.ready
        THEN /\ urlResult.reads = 1
             /\ urlResult.error = "none" <=>
                    Contains(urlResult.url[1], urlResult.expected)
             /\ urlResult.error # "none" =>
                    /\ urlResult.error = "AssertionError"
                    /\ Contains(urlResult.message, urlResult.url[1])
                    /\ Contains(urlResult.message, urlResult.expected)
        ELSE /\ urlResult.reads = 0
             /\ urlResult.error = "not_ready"

\* C15 witness: a passing check of a part in the middle of the URL, on a page
\* that has moved on since.
C15_Witness ==
    /\ urlResult.op = "assert_url_contains"
    /\ urlResult.ready
    /\ urlResult.url = <<<<"b", "a", "b">>>>
    /\ urlResult.expected = <<"a", "b">>
    /\ urlResult.error = "none"
    /\ url # urlResult.url[1]

C18_ScreenshotNeverRaises == shotResult.ran => ~shotResult.raised

\* C19: a run of main() with a test selection exits with the return code of
\* the pytest subprocess, whatever the report generation that follows does,
\* and with 130 when the user interrupts the run.
C19_ExitCodeMirrorsRun ==
    (cliResult.op = "main" /\ cliResult.selection # "none") =>
        IF cliResult.interrupted THEN cliResult.exit_code = 130
        ELSE /\ cliResult.pytestRc # NoValue
             /\ cliResult.exit_code = cliResult.pytestRc[1]

\* C20: get_user(name) returns the data stored under name when name is a key
\* of the configured users, and otherwise fails with the unknown-user error,
\* whose message names the requested user and lists every known user name;
\* either way the users of the loaded snapshot are as they were at the call.
C20_GetUser ==
    userResult.op = "get_user" =>
        LET known == {userResult.snapshot[i].key : i \in 1..Len(userResult.snapshot)}
        IN  /\ users = userResult.snapshot
            /\ IF userResult.username \in known
               THEN /\ userResult.error = "none"
                    /\ \E i \in 1..Len(users) :
                           /\ users[i].key = userResult.username
                           /\ userResult.value = <<users[i].data>>
               ELSE /\ userResult.error = "KeyError"
                    /\ userResult.value = NoValue
                    /\ \E i \in 1..Len(userResult.message) :
                           userResult.message[i] = userResult.username
                    /\ \A k \in known : \E i \in 4..Len(userResult.message) :
                           userResult.message[i] = k

\* C20 witness: a user asked for that the file does not define, while it
\* defines two others.
C20_Witness ==
    /\ userResult.op = "get_user"
    /\ userResult.username = "problem_user"
    /\ Len(users) = 2
    /\ userResult.error = "KeyError"
    /\ Len(userResult.message) = 5

\* C21: the loader opens its configuration file once, when it is
\* constructed, and every accessor returns the part of the loaded snapshot
\* it stands for and leaves the snapshot as it was, so that a second call
\* of an accessor returns what the first returned.
C21_PureProjection ==
    /\ fileReads = 1
    /\ userResult.op \in Sections \cup {"get_user"} =>
           users = userResult.snapshot
    /\ userResult.op \in Sections =>
           /\ userResult.error = "none"
           /\ userResult.value =
                  <<IF userResult.op = "users" THEN users
                    ELSE [section |-> userResult.op, data |-> settings]>>

\* C21 witness: a section read from a loader constructed over another file
\* than the first.
C21_Witness ==
    /\ userResult.op = "environment"
    /\ settings = "b"
    /\ Len(users) = 1
    /\ fileReads = 1
    /\ userResult.value = <<[section |-> "environment", data |-> "b"]>>

\* C22: every element query made through a page object while the handler is
\* Ready targets the page the handler holds at the time of the call, the
\* page get_current_url and take_screenshot use, also when the page object
\* was built before a cleanup() and a new start_browser().
C22_TargetsCurrentPage ==
    (pageObject.op = "find_element" /\ pageObject.ready) =>
        pageObject.target = pageObject.current

C24_RepeatedCleanupNoop ==
    [][lastOp'.op = "cleanup" =>
           \A k \in lastCleanup'.attempted : <<k, Handles[k]>> \in live]_vars

\* C25: cleanup() goes through the resources the handler holds in the order
\* page, context, engine, automation host: a release step is attempted only
\* when every step before it in this order has been attempted, and a step
\* that raised is the last one attempted.
C25_ReleaseOrder ==
    LET pos == [page |-> 1, context |-> 2, browser |-> 3, playwright |-> 4]
    IN  lastCleanup.ran =>
            /\ \A k \in lastCleanup.attempted, j \in lastCleanup.present :
                   pos[j] < pos[k] => j \in lastCleanup.attempted
            /\ \A f \in lastCleanup.failed, k \in lastCleanup.attempted :
                   pos[k] <= pos[f]

\* C25 witness: the close of the engine raised after the page and the
\* context were closed, and the automation host was not stopped.
C25_Witness ==
    /\ lastOp.op = "cleanup"
    /\ lastCleanup.present = Kinds
    /\ lastCleanup.failed = {"browser"}
    /\ lastCleanup.attempted = {"page", "context", "browser"}

\* C27: a run of main() in which --clean, --install or --report was the
\* action executed, whatever test selection came with it, does not go on to
\* the report generation that follows a test run.
C27_ReportOnlyAfterTests ==
    (/\ cliResult.op = "main"
     /\ cliResult.utility # "none"
     /\ cliResult.pytestRc = NoValue) => ~cliResult.reportCalled

\* C28: whenever is_initialized is true the handler holds an automation
\* host, an engine, a context and a page, none of them closed or stopped.
C28_ReadyMeansLive ==
    is_initialized =>
        \A k \in Kinds : Handles[k] # None /\ <<k, Handles[k]>> \in live

\* C26: a fill_input(selector, value) that returns leaves the input holding
\* exactly value, whatever it held before; with the empty string as value
\* the input is left empty.
C26_FieldHoldsValue ==
    (fillResult.op = "fill_input" /\ fillResult.error = "none") =>
        /\ fillResult.el.state = "visible"
        /\ fillResult.after = fillResult.value
        /\ fillResult.value = <<>> => fillResult.after = <<>>

\* C26 witness: a fill_input with a shorter value on an input that held two
\* characters, and the input holds the new value.
C26_Witness ==
    /\ fillResult.op = "fill_input"
    /\ fillResult.error = "none"
    /\ fillResult.before = <<"x", " ">>
    /\ fillResult.value = <<"x">>
    /\ input_value = <<"x">>

\* C29: in the teardown of a test the failure screenshot is attempted before
\* the cleanup() of the browser fixture: the attempt starts on a handler
\* whose is_initialized is true and that no cleanup() of this test has
\* touched, and when the cleanup() of a failed test runs the attempt has
\* already been made and none follows it.
C29_ScreenshotBeforeCleanup ==
    [][/\ (shotResult'.ran /\ ~shotResult.ran) =>
              /\ is_initialized
              /\ fixtureCleanups = 0
              /\ fixtureCleanups' = 0
       /\ (fixtureCleanups' = fixtureCleanups + 1 /\
              testOutcome' \in {"failed", "raised"}) =>
              /\ shotResult.ran
              /\ shotResult' = shotResult]_vars

\* C29 witness: a failed test whose screenshot was attached and whose
\* browser was then cleaned up.
C29_Witness ==
    /\ fixturePc = "finished"
    /\ testOutcome = "failed"
    /\ shotResult.ran
    /\ shotResult.attached
    /\ fixtureCleanups = 1
    /\ ~is_initialized

\* C30: remove_all_items() never raises the not-found error; it clicks
\* Remove at most once per name of its snapshot, and when no click fails in
\* the engine it has clicked once per name read, on rows showing these names
\* in order, and the cart holds no rows afterwards.
C30_RemoveAllEmptiesCart ==
    listResult.op = "remove_all_items" =>
        /\ listResult.error # "ValueError"
        /\ Len(listResult.names) = Len(listResult.items)
        /\ Len(listResult.clicked) <= Len(listResult.names)
        /\ Len(listResult.left) = Len(listResult.items) - Len(listResult.clicked)
        /\ listResult.error = "none" =>
               /\ Len(listResult.clicked) = Len(listResult.names)
               /\ \A k \in 1..Len(listResult.names) :
                      ProductName(listResult.clicked[k]) = listResult.names[k]
               /\ listResult.left = <<>>

\* C30 witness: a cart with three rows, two of them showing one name, was
\* emptied.
C30_Witness ==
    /\ listResult.op = "remove_all_items"
    /\ listResult.items = <<2, 1, 2>>
    /\ listResult.error = "none"
    /\ cart = <<>>

====
